---- MODULE Spec2Model ----
(***************************************************************************)
(* A model of the ebuttd parser: the value parsers and the cascade of      *)
(* model.py, and the structural walk of parse.py.                          *)
(*                                                                         *)
(* Attribute values are strings, modelled as sequences of one-character    *)
(* strings, so that strip(), split() and the scanners do what the code     *)
(* does.  Python floats are modelled as exact rationals <<num, den>> kept  *)
(* in lowest terms (rounding is not modelled).                             *)
(***************************************************************************)
EXTENDS Integers, Sequences, FiniteSets, TLC

VARIABLES
    pc,             \* position of the walk in parse.py
    err,            \* the exception that ended parse(), or NoError
    document,       \* model.Document being built (Context.document)
    ids,            \* Context.ids
    styles,         \* Context.styles : id -> StyleProperties
    regions,        \* Context.regions : id -> <<index, style>>
    counts,         \* count, styling_count, layout_count of _parse_head; count of _parse_body
    style_stack,    \* the deque of _parse_body / _parse_div / _parse_para
    frame,          \* locals of the _parse_div and _parse_para invocations
    last,           \* the element most recently appended to the document
    seen,           \* history: the number of calls of add_id
    pure_in,        \* input of a function run on its own (SpecCascade, SpecPadding)
    pure_out        \* its result

vars == <<pc, err, document, ids, styles, regions, counts, style_stack,
          frame, last, seen, pure_in, pure_out>>

\* Python's None, for the optional values (line_height, text_outline, ...)
None == <<>>

\* The two kinds of exception that can end parse()
ValueError == "ValueError"
ParseError == "ParseError"

\* The outcome of a value parser: a value, or the ValueError it raises
Ok(v) == [ok |-> TRUE, v |-> v]
Raise == [ok |-> FALSE, v |-> ValueError, msg |-> "value"]

----------------------------------------------------------------------------
(* Strings                                                                 *)

SP == " "

RECURSIVE LStrip(_)
LStrip(s) == IF s # <<>> /\ Head(s) = SP THEN LStrip(Tail(s)) ELSE s

RECURSIVE RStrip(_)
RStrip(s) ==
    IF s # <<>> /\ s[Len(s)] = SP THEN RStrip(SubSeq(s, 1, Len(s) - 1)) ELSE s

\* str.strip()
Strip(s) == RStrip(LStrip(s))

\* str.split(sep): the pieces between separators, empty pieces included
RECURSIVE SplitAcc(_, _, _)
SplitAcc(s, sep, cur) ==
    IF s = <<>> THEN <<cur>>
    ELSE IF Head(s) = sep THEN <<cur>> \o SplitAcc(Tail(s), sep, <<>>)
    ELSE SplitAcc(Tail(s), sep, Append(cur, Head(s)))

Split(s, sep) == SplitAcc(s, sep, <<>>)

\* [v for v in pieces if v]
RECURSIVE NonEmpty(_)
NonEmpty(pieces) ==
    IF pieces = <<>> THEN <<>>
    ELSE IF Head(pieces) = <<>> THEN NonEmpty(Tail(pieces))
    ELSE <<Head(pieces)>> \o NonEmpty(Tail(pieces))

split_value(value) == NonEmpty(Split(Strip(value), SP))

DecDigits == <<"0", "1", "2", "3", "4", "5", "6", "7", "8", "9">>
HexDigits == DecDigits \o <<"a", "b", "c", "d", "e", "f">>

IsDec(c) == \E i \in 1..Len(DecDigits) : DecDigits[i] = c
DecVal(c) == (CHOOSE i \in 1..Len(DecDigits) : DecDigits[i] = c) - 1
IsHex(c) == \E i \in 1..Len(HexDigits) : HexDigits[i] = c
HexVal(c) == (CHOOSE i \in 1..Len(HexDigits) : HexDigits[i] = c) - 1

AllDec(s) == s # <<>> /\ \A i \in 1..Len(s) : IsDec(s[i])

RECURSIVE DecNum(_)
DecNum(s) == IF s = <<>> THEN 0 ELSE 10 * DecNum(SubSeq(s, 1, Len(s) - 1)) + DecVal(s[Len(s)])

\* int(s) / float(s) on the literals of this model: an optional sign and
\* decimal digits; every other string raises ValueError.
ToNumber(s) ==
    IF AllDec(s) THEN Ok(DecNum(s))
    ELSE IF s # <<>> /\ Head(s) = "-" /\ AllDec(Tail(s)) THEN Ok(0 - DecNum(Tail(s)))
    ELSE Raise

----------------------------------------------------------------------------
(* Rationals                                                               *)

RECURSIVE GCD(_, _)
GCD(a, b) == IF b = 0 THEN a ELSE GCD(b, a % b)

Rat(n, d) == LET g == GCD(n, d) IN IF g = 0 THEN <<0, 1>> ELSE <<n \div g, d \div g>>
\* the common factors are taken out before the products are formed
RMul(a, b) ==
    LET g1 == GCD(a[1], b[2])
        g2 == GCD(b[1], a[2])
    IN  Rat((a[1] \div g1) * (b[1] \div g2), (a[2] \div g2) * (b[2] \div g1))
RDiv(a, n) == Rat(a[1], a[2] * n)
Zero == Rat(0, 1)
One == Rat(1, 1)

----------------------------------------------------------------------------
(* model.py: value parsers                                                 *)

\* Once({e(x) : x \in {d}}) is e(d), with d evaluated a single time: the
\* way this module names an intermediate result that is used repeatedly.
Once(S) == CHOOSE y \in S : TRUE

CELL == "c"
PERCENT == "%"

\* Unit.parse(self, value, max_value); max_value is None or <<m>>
UnitParse(self, value, max_value) ==
    Once({ IF v = <<>> \/ v[Len(v)] # (IF self = CELL THEN "c" ELSE "%") THEN Raise
           ELSE Once({ IF ~n.ok THEN Raise
                       ELSE IF n.v < 0 THEN Raise
                       ELSE IF max_value # None /\ n.v > max_value[1] THEN Raise
                       ELSE IF self = CELL THEN Ok(Rat(n.v, 1))
                       ELSE Ok(Rat(n.v, 100))
                     : n \in {ToNumber(SubSeq(v, 1, Len(v) - 1))} })
         : v \in {Strip(value)} })

\* the first ValueError among the results rs, else the tuple of the values
AllOk(rs) ==
    IF \E i \in 1..Len(rs) : ~rs[i].ok THEN Raise
    ELSE Ok([i \in 1..Len(rs) |-> rs[i].v])

PercentList(values, max_value) ==
    Once({ AllOk(rs)
         : rs \in {<<>> \o [i \in 1..Len(values) |->
                              UnitParse(PERCENT, values[i], max_value)]} })

ActiveAreaDefault == <<Zero, Zero, One, One>>

ActiveAreaParse(value) ==
    Once({ IF Len(values) # 4 THEN Raise ELSE PercentList(values, <<100>>)
         : values \in {split_value(value)} })

CellResolutionDefault == [columns |-> 32, rows |-> 15]

CellResolutionParse(value) ==
    Once({ IF Len(values) # 2 THEN Raise
           ELSE Once({ IF ~c.ok \/ ~r.ok THEN Raise
                       ELSE IF c.v > 0 /\ r.v > 0
                       THEN Ok([columns |-> c.v, rows |-> r.v])
                       ELSE Raise
                     : c \in {ToNumber(values[1])}, r \in {ToNumber(values[2])} })
         : values \in {split_value(value)} })

\* Color is <<red, green, blue, alpha>>
black == <<0, 0, 0, 255>>
white == <<255, 255, 255, 255>>
transparent == <<0, 0, 0, 0>>

\* int(s, base=16) of a two-character slice
Hex2(s) == IF Len(s) = 2 /\ IsHex(s[1]) /\ IsHex(s[2])
           THEN Ok(16 * HexVal(s[1]) + HexVal(s[2])) ELSE Raise

ColorParse(value) ==
    Once({ IF v0 = <<>> \/ Head(v0) # "#" THEN Raise
           ELSE Once({ IF Len(v) # 6 /\ Len(v) # 8 THEN Raise
                       ELSE AllOk(<<Hex2(SubSeq(v, 1, 2)), Hex2(SubSeq(v, 3, 4)),
                                    Hex2(SubSeq(v, 5, 6)),
                                    IF Len(v) = 8 THEN Hex2(SubSeq(v, 7, 8)) ELSE Ok(0)>>)
                     : v \in {Tail(v0)} })
         : v0 \in {Strip(value)} })

\* The enumerations: the literal (already stripped) is matched exactly
\* against the vocabulary and mapped to the member.
EnumParse(vocabulary, value) ==
    IF value \in DOMAIN vocabulary THEN Ok(vocabulary[value]) ELSE Raise

Direction == [ltr |-> "LTR", rtl |-> "RTL"]
DisplayAlign == [before |-> "BEFORE", center |-> "CENTER", after |-> "AFTER"]
FontStyle == [normal |-> "NORMAL", italic |-> "ITALIC"]
FontWeight == [normal |-> "NORMAL", bold |-> "BOLD"]
MultiRowAlign == [auto |-> "AUTO", start |-> "START", center |-> "CENTER", end |-> "END"]
Overflow == [hidden |-> "HIDDEN", visible |-> "VISIBLE"]
ShowBackground == [always |-> "ALWAYS", whenActive |-> "WHEN_ACTIVE"]
TextAlign == [left |-> "LEFT", center |-> "CENTER", right |-> "RIGHT",
              start |-> "START", end |-> "END"]
TextDecoration == [none |-> "NONE", underline |-> "UNDERLINE"]
Space == [default |-> "DEFAULT", preserve |-> "PRESERVE"]
UnicodeBidi == [normal |-> "NORMAL", embed |-> "EMBED", bidiOverride |-> "BIDI_OVERRIDE"]
WrapOption == [wrap |-> "WRAP", noWrap |-> "NO_WRAP"]
WritingMode == [lrtb |-> "LRTB", lr |-> "LRTB", rltb |-> "RLTB", rl |-> "RLTB",
                tbrl |-> "TBRL", tb |-> "TBRL", tblr |-> "TBLR"]

ExtentParse(value) ==
    Once({ IF values = <<>> \/ Len(values) # 2 THEN Raise
           ELSE PercentList(values, <<100>>)
         : values \in {split_value(value)} })

OriginParse(value) ==
    Once({ IF Len(values) # 2 THEN Raise ELSE PercentList(values, <<100>>)
         : values \in {split_value(value)} })

FontSizeParse(value) == UnitParse(PERCENT, value, None)

\* "normal"
Normal == <<"n", "o", "r", "m", "a", "l">>

LineHeightParse(value0) ==
    Once({ IF value = Normal THEN Ok(None) ELSE UnitParse(PERCENT, value, None)
         : value \in {Strip(value0)} })

LinePaddingParse(value) == UnitParse(CELL, value, None)

PaddingDefault == [before |-> Zero, end |-> Zero, after |-> Zero, start |-> Zero]

\* one iteration of the loop of Padding.parse (i counts from 0)
PaddingStep(acc, i, length) ==
    CASE i = 0 -> [before |-> length, end |-> length, after |-> length, start |-> length]
      [] i = 1 -> [acc EXCEPT !.end = length, !.start = length]
      [] i = 2 -> [acc EXCEPT !.after = length]
      [] OTHER -> [acc EXCEPT !.start = length]

RECURSIVE PaddingLoop(_, _, _)
PaddingLoop(values, i, acc) ==
    IF i >= Len(values) THEN Ok(acc)
    ELSE Once({ IF ~length.ok THEN Raise
                ELSE Once({ PaddingLoop(values, i + 1, acc1)
                          : acc1 \in {PaddingStep(acc, i, length.v)} })
              : length \in {UnitParse(PERCENT, values[i + 1], None)} })

\* the longest list of values Padding.parse lets through
PaddingMaxValues == 3

PaddingParse(value) ==
    Once({ IF values = <<>> \/ Len(values) > PaddingMaxValues THEN Raise
           ELSE PaddingLoop(values, 0, PaddingDefault)
         : values \in {split_value(value)} })

\* lines 375-385 of TextOutline.parse: the values that are not "none"
TextOutlineValues(values, hasColor) ==
    Once({ IF ~color.ok THEN Raise
           ELSE IF ~thickness.ok \/ ~blur_radius.ok THEN Raise
           ELSE Ok(<<color.v, thickness.v, blur_radius.v>>)
         : color \in {IF hasColor THEN ColorParse(values[1]) ELSE Ok(None)},
           thickness \in {UnitParse(PERCENT, values[IF hasColor THEN 2 ELSE 1], None)},
           blur_radius \in {IF Len(values) > (IF hasColor THEN 2 ELSE 1)
                            THEN UnitParse(PERCENT, values[IF hasColor THEN 3 ELSE 2], None)
                            ELSE Ok(None)} })

\* TextOutline is <<color, thickness, blur_radius>>, color and blur_radius
\* possibly None
TextOutlineParse(value) ==
    Once({ IF values = <<>> THEN Raise
           ELSE IF Len(values) = 1 /\ values[1] = <<"n", "o", "n", "e">> THEN Ok(None)
           ELSE IF Len(values) > 3 THEN Raise
           ELSE IF Head(values[1]) = "#" /\ Len(values) = 1 THEN Raise
           ELSE TextOutlineValues(values, Head(values[1]) = "#")
         : values \in {split_value(value)} })

\* parse.py line 181: the font family list
FontFamilyParse(value) == Ok(NonEmpty(Split(Strip(value), ",")))

default_font_family == << <<"d", "e", "f", "a", "u", "l", "t">> >>

----------------------------------------------------------------------------
(* model.py: the cascade                                                   *)

COMPUTE_FONT_SIZE_BIT == 1
COMPUTE_LINE_HEIGHT_BIT == 2
COMPUTE_LINE_PADDING_BIT == 4
COMPUTE_TEXT_OUTLINE_BIT == 8

\* a mask is the set of its bits
COMPUTE_ALL_MASK == {COMPUTE_FONT_SIZE_BIT, COMPUTE_LINE_HEIGHT_BIT,
                     COMPUTE_LINE_PADDING_BIT, COMPUTE_TEXT_OUTLINE_BIT}

\* ResolvedStyle(): the class defaults
ResolvedStyle ==
    [background_color |-> transparent, color |-> white, direction |-> "LTR",
     fill_line_gap |-> FALSE, font_family |-> default_font_family,
     font_size |-> One, font_style |-> "NORMAL", font_weight |-> "NORMAL",
     line_height |-> None, line_padding |-> Zero, multi_row_align |-> "AUTO",
     text_align |-> "START", text_decoration |-> "NONE", text_outline |-> None,
     unicode_bidi |-> "NORMAL", wrap_option |-> "WRAP"]

\* lines 596-600 of compute: the font size
ComputeFontSize(self, mask, parent_font_size, cell_resolution) ==
    IF COMPUTE_FONT_SIZE_BIT \in mask
    THEN IF parent_font_size = None
         THEN RDiv(self.font_size, cell_resolution.rows)
         ELSE RMul(self.font_size, parent_font_size)
    ELSE self.font_size

\* ResolvedStyle.compute
compute(self, mask, parent_font_size, cell_resolution) ==
    Once({ [self EXCEPT
              !.font_size = font_size,
              !.line_height =
                 IF (COMPUTE_FONT_SIZE_BIT \in mask \/ COMPUTE_LINE_HEIGHT_BIT \in mask)
                    /\ self.line_height # None
                 THEN RMul(self.line_height, font_size)
                 ELSE self.line_height,
              !.line_padding =
                 IF COMPUTE_LINE_PADDING_BIT \in mask
                 THEN RDiv(self.line_padding, cell_resolution.columns)
                 ELSE self.line_padding,
              !.text_outline =
                 IF (COMPUTE_FONT_SIZE_BIT \in mask \/ COMPUTE_TEXT_OUTLINE_BIT \in mask)
                    /\ self.text_outline # None
                 THEN <<self.text_outline[1], RMul(self.text_outline[2], font_size),
                        IF self.text_outline[3] = None THEN None
                        ELSE RMul(self.text_outline[3], font_size)>>
                 ELSE self.text_outline]
         : font_size \in {ComputeFontSize(self, mask, parent_font_size, cell_resolution)} })

\* inherited() resetting the foreground color as well
inherited_with_color(self) ==
    [self EXCEPT !.background_color = transparent, !.unicode_bidi = "NORMAL",
                 !.color = white]

\* ResolvedStyle.inherited
inherited(self) ==
    [self EXCEPT !.background_color = transparent, !.unicode_bidi = "NORMAL"]

\* `if v := properties.get(key)`: the key is there and its value is truthy.
\* Colors are 4-tuples and enumeration members are objects: always truthy.
\* A bool is its own truth value, a float is truthy unless it is 0.0, a
\* list unless it is empty.
Present(properties, key) == key \in DOMAIN properties
TruthyBool(properties, key) == Present(properties, key) /\ properties[key]
TruthyFloat(properties, key) == Present(properties, key) /\ properties[key][1] # 0
TruthyList(properties, key) == Present(properties, key) /\ properties[key] # <<>>

\* the value of a key after the merge
Merged(self, properties, key, taken) == IF taken THEN properties[key] ELSE self[key]

\* ResolvedStyle.merge_properties: the updated record and the returned mask;
\* aliased names the keys of the record whose value is, after the merge, the
\* very object the properties hold and can be changed in place: the font
\* family is the one list among the values and line 635 stores a copy of it
merge_properties(self, properties) ==
    [self |->
        [background_color |-> Merged(self, properties, "background_color",
                                     Present(properties, "background_color")),
         color |-> Merged(self, properties, "color", Present(properties, "color")),
         direction |-> Merged(self, properties, "direction",
                              Present(properties, "direction")),
         fill_line_gap |-> Merged(self, properties, "fill_line_gap",
                                  TruthyBool(properties, "fill_line_gap")),
         font_family |-> Merged(self, properties, "font_family",
                                TruthyList(properties, "font_family")),
         font_style |-> Merged(self, properties, "font_style",
                               Present(properties, "font_style")),
         font_weight |-> Merged(self, properties, "font_weight",
                                Present(properties, "font_weight")),
         multi_row_align |-> Merged(self, properties, "multi_row_align",
                                    Present(properties, "multi_row_align")),
         text_align |-> Merged(self, properties, "text_align",
                               Present(properties, "text_align")),
         text_decoration |-> Merged(self, properties, "text_decoration",
                                    Present(properties, "text_decoration")),
         unicode_bidi |-> Merged(self, properties, "unicode_bidi",
                                 Present(properties, "unicode_bidi")),
         wrap_option |-> Merged(self, properties, "wrap_option",
                                Present(properties, "wrap_option")),
         line_height |-> Merged(self, properties, "line_height",
                                Present(properties, "line_height")),
         text_outline |-> Merged(self, properties, "text_outline",
                                 Present(properties, "text_outline")),
         font_size |-> Merged(self, properties, "font_size",
                              TruthyFloat(properties, "font_size")),
         line_padding |-> Merged(self, properties, "line_padding",
                                 TruthyFloat(properties, "line_padding"))],
     mask |->
        (IF Present(properties, "line_height") THEN {COMPUTE_LINE_HEIGHT_BIT} ELSE {})
        \cup (IF Present(properties, "text_outline") THEN {COMPUTE_TEXT_OUTLINE_BIT} ELSE {})
        \cup (IF TruthyFloat(properties, "font_size") THEN {COMPUTE_FONT_SIZE_BIT} ELSE {})
        \cup (IF TruthyFloat(properties, "line_padding") THEN {COMPUTE_LINE_PADDING_BIT} ELSE {}),
     aliased |-> {}]

\* the keys a record resolved from the stack shares with entries of the table
SharedKeys(stack, style_table) ==
    UNION {merge_properties(ResolvedStyle, style_table[id]).aliased :
              id \in {id \in DOMAIN style_table :
                         \E i \in 1..Len(stack) :
                             \E j \in 1..Len(Split(stack[i], SP)) :
                                 Split(stack[i], SP)[j] = id}}

----------------------------------------------------------------------------
(* parse.py: the cascade resolver                                          *)

\* the outcome of structural code: a value, or the ParseError it raises
Fail(msg) == [ok |-> FALSE, v |-> ParseError, msg |-> msg]

\* ResolveStep computing every unit again after each merge
ResolveStepAllMask(st, properties, cell_resolution) ==
    Once({ Once({ [rs |-> computed, pfs |-> computed.font_size]
                : computed \in {compute(merged.self, COMPUTE_ALL_MASK, st.pfs,
                                        cell_resolution)} })
         : merged \in {merge_properties(st.rs, properties)} })

\* lines 261-267: one style is merged and computed; st is
\* [rs |-> resolved_style, pfs |-> parent_font_size]
ResolveStep(st, properties, cell_resolution) ==
    Once({ Once({ [rs |-> computed, pfs |-> computed.font_size]
                : computed \in {compute(merged.self, merged.mask, st.pfs,
                                        cell_resolution)} })
         : merged \in {merge_properties(st.rs, properties)} })

\* lines 255-267: the styles named by one entry of the stack, in order
RECURSIVE ResolveIds(_, _, _, _)
ResolveIds(idlist, st, style_table, cell_resolution) ==
    IF idlist = <<>> THEN Ok(st)
    ELSE IF Head(idlist) = <<>>
    THEN ResolveIds(Tail(idlist), st, style_table, cell_resolution)
    ELSE IF Head(idlist) \notin DOMAIN style_table
    THEN Fail("Invalid style id")
    ELSE Once({ ResolveIds(Tail(idlist), st1, style_table, cell_resolution)
              : st1 \in {ResolveStep(st, style_table[Head(idlist)], cell_resolution)} })

\* lines 252-267: the entries of the stack from position index (from 0)
RECURSIVE ResolveScopes(_, _, _, _, _)
ResolveScopes(stack, index, st, style_table, cell_resolution) ==
    IF index >= Len(stack) THEN Ok(st)
    ELSE Once({ IF ~r.ok THEN r
                ELSE ResolveScopes(stack, index + 1, r.v, style_table, cell_resolution)
              : r \in {ResolveIds(Split(stack[index + 1], SP),
                                  IF index # 0 THEN [st EXCEPT !.rs = inherited(st.rs)]
                                  ELSE st,
                                  style_table, cell_resolution)} })

\* _resolve_style(style_stack, ctx): Ok(resolved_style) or the ParseError
_resolve_style(stack, style_table, cell_resolution) ==
    Once({ Once({ IF r.ok THEN Ok(r.v.rs) ELSE r
                : r \in {ResolveScopes(stack, 0,
                                       [rs |-> resolved_style,
                                        pfs |-> resolved_style.font_size],
                                       style_table, cell_resolution)} })
         : resolved_style \in {compute(ResolvedStyle, COMPUTE_ALL_MASK, None,
                                       cell_resolution)} })

----------------------------------------------------------------------------
(* parse.py: Scanner and _parse_timecode                                   *)

RECURSIVE CountDigits(_)
CountDigits(input) ==
    IF input # <<>> /\ IsDec(Head(input)) THEN 1 + CountDigits(Tail(input)) ELSE 0

\* Scanner.scan_char: the rest of the input, or ValueError
scan_char(input, c) ==
    IF input # <<>> /\ Head(input) = c THEN Ok(Tail(input)) ELSE Raise

\* scan_int without the test of the limit (lines 338-339)
scan_int_unlimited(input, num_digits, limit) ==
    Once({ IF count = 0 \/ (num_digits > 0 /\ count # num_digits) THEN Raise
           ELSE Ok([n |-> DecNum(SubSeq(input, 1, count)),
                    input |-> SubSeq(input, count + 1, Len(input))])
         : count \in {CountDigits(input)} })

\* Scanner.scan_int: [n, input], or ValueError
scan_int(input, num_digits, limit) ==
    Once({ IF count = 0 \/ (num_digits > 0 /\ count # num_digits) THEN Raise
           ELSE Once({ IF limit > 0 /\ n > limit THEN Raise
                       ELSE Ok([n |-> n,
                                input |-> SubSeq(input, count + 1, Len(input))])
                     : n \in {DecNum(SubSeq(input, 1, count))} })
         : count \in {CountDigits(input)} })

\* the scanner of _parse_timecode is in state sc = [ok, input, secs], secs
\* counted in milliseconds; once a scan raises ValueError the rest is skipped
ScanField(sc, num_digits, limit, millis) ==
    IF ~sc.ok THEN sc
    ELSE Once({ IF ~r.ok THEN [sc EXCEPT !.ok = FALSE]
                ELSE [ok |-> TRUE, input |-> r.v.input, secs |-> sc.secs + r.v.n * millis]
              : r \in {scan_int(sc.input, num_digits, limit)} })

ScanChar(sc, c) ==
    IF ~sc.ok THEN sc
    ELSE Once({ IF ~r.ok THEN [sc EXCEPT !.ok = FALSE] ELSE [sc EXCEPT !.input = r.v]
              : r \in {scan_char(sc.input, c)} })

\* _parse_timecode: the seconds as a rational, or the ParseError
_parse_timecode(input) ==
    Once({ Once({ Once({ Once({ Once({ Once({ Once({
        IF ~ms.ok \/ ms.input # <<>> THEN Fail("Invalid timecode")
        ELSE Ok(Rat(ms.secs, 1000))
        : ms \in {ScanField(c3, 3, 0, 1)} })
        : c3 \in {ScanChar(s, ".")} })
        : s \in {ScanField(c2, 2, 59, 1000)} })
        : c2 \in {ScanChar(m, ":")} })
        : m \in {ScanField(c1, 2, 59, 60000)} })
        : c1 \in {ScanChar(h, ":")} })
        : h \in {ScanField([ok |-> TRUE, input |-> input, secs |-> 0], 0, 0, 3600000)} })

----------------------------------------------------------------------------
(* parse.py: identifiers                                                   *)

\* An attribute read with elem.get(name) is None (absent) or <<string>>.
Absent == None
Attr(string) == <<string>>

\* `if v := elem.get(name)`: the attribute is there and not the empty string
Given(attr) == attr # Absent /\ attr[1] # <<>>

\* elem.get(name, "").strip()
GetStripped(attr) == IF attr = Absent THEN <<>> ELSE Strip(attr[1])

\* _parse_id(elem, required): Ok(id), id possibly "", or the ParseError
_parse_id(attr, required) ==
    IF Given(attr)
    THEN IF Strip(attr[1]) # <<>> THEN Ok(Strip(attr[1]))
         ELSE Fail("Empty id attribute")
    ELSE IF required THEN Fail("Missing id attribute")
    ELSE Ok(<<>>)

\* add_id without the membership test of line 82
add_id_unchecked(idset, id) == Ok(idset \cup {id})

\* Context.add_id: Ok(the new ids), or the ParseError
add_id(idset, id) ==
    IF id \in idset
    THEN [ok |-> FALSE, v |-> ParseError, msg |-> "Non unique identifier", offered |-> id]
    ELSE Ok(idset \cup {id})

\* `if v := elem.get(name)` for an attribute whose literal is a word
GivenWord(attr) == attr # Absent /\ attr[1] # ""

----------------------------------------------------------------------------
(* parse.py: the elements of the head                                      *)

\* lines 165-203: one attribute of a style element, as [key, r]; the
\* fillLineGap branch raises ParseError itself.
StyleAttr(name, value) ==
    CASE name = "backgroundColor" -> [key |-> "background_color", r |-> ColorParse(value)]
      [] name = "color" -> [key |-> "color", r |-> ColorParse(value)]
      [] name = "direction" -> [key |-> "direction", r |-> EnumParse(Direction, value)]
      [] name = "fillLineGap" ->
            [key |-> "fill_line_gap",
             r |-> IF Strip(value) = <<"t", "r", "u", "e">> THEN Ok(TRUE)
                   ELSE IF Strip(value) = <<"f", "a", "l", "s", "e">> THEN Ok(FALSE)
                   ELSE Fail("Invalid fillLineGap attribute")]
      [] name = "fontFamily" -> [key |-> "font_family", r |-> FontFamilyParse(value)]
      [] name = "fontSize" -> [key |-> "font_size", r |-> FontSizeParse(value)]
      [] name = "fontStyle" -> [key |-> "font_style", r |-> EnumParse(FontStyle, value)]
      [] name = "fontWeight" -> [key |-> "font_weight", r |-> EnumParse(FontWeight, value)]
      [] name = "lineHeight" -> [key |-> "line_height", r |-> LineHeightParse(value)]
      [] name = "linePadding" -> [key |-> "line_padding", r |-> LinePaddingParse(value)]
      [] name = "multiRowAlign" ->
            [key |-> "multi_row_align", r |-> EnumParse(MultiRowAlign, value)]
      [] name = "textAlign" -> [key |-> "text_align", r |-> EnumParse(TextAlign, value)]
      [] name = "textDecoration" ->
            [key |-> "text_decoration", r |-> EnumParse(TextDecoration, value)]
      [] name = "textOutline" -> [key |-> "text_outline", r |-> TextOutlineParse(value)]
      [] name = "unicodeBidi" -> [key |-> "unicode_bidi", r |-> EnumParse(UnicodeBidi, value)]
      [] name = "wrapOption" -> [key |-> "wrap_option", r |-> EnumParse(WrapOption, value)]

\* lines 164-203: the StyleProperties of a style element, given as the map
\* of its styling attributes.  The elements of this model have at most one
\* malformed attribute, so the order of elem.items() does not show.
StyleProperties(elem) ==
    Once({ IF \E name \in DOMAIN elem : ~parsed[name].r.ok
           THEN parsed[CHOOSE name \in DOMAIN elem : ~parsed[name].r.ok].r
           ELSE Ok([key \in {parsed[name].key : name \in DOMAIN elem} |->
                       parsed[CHOOSE name \in DOMAIN elem : parsed[name].key = key].r.v]
                   @@ <<>>)
         : parsed \in {[name \in DOMAIN elem |-> StyleAttr(name, elem[name])] @@ <<>>} })

\* lines 162-204: one style element of the styling section
_parse_styles(ctx, idattr, elem) ==
    Once({ IF ~id.ok THEN id ELSE
    Once({ IF ~added.ok THEN added ELSE
    Once({ IF ~properties.ok THEN properties ELSE
           Ok([ids |-> added.v, offered |-> <<id.v>>,
               styles |-> (id.v :> properties.v) @@ ctx.styles])
         : properties \in {StyleProperties(elem)} })
         : added \in {add_id(ctx.ids, id.v)} })
         : id \in {_parse_id(idattr, TRUE)} })

RegionDefault ==
    [origin |-> <<Zero, Zero>>, extent |-> <<Zero, Zero>>, display_align |-> "BEFORE",
     overflow |-> "HIDDEN", padding |-> PaddingDefault, show_background |-> "ALWAYS",
     writing_mode |-> "LRTB"]

\* lines 217-235: the attributes of a region element, each Absent or Attr(..)
RegionAttrs(elem) ==
    Once({ IF ~all.ok THEN Raise
           ELSE Ok([origin |-> all.v[1], extent |-> all.v[2], display_align |-> all.v[3],
                    overflow |-> all.v[4], padding |-> all.v[5],
                    show_background |-> all.v[6], writing_mode |-> all.v[7]])
         : all \in {AllOk(<<
              IF elem.origin = Absent THEN Ok(RegionDefault.origin)
              ELSE OriginParse(elem.origin[1]),
              IF elem.extent = Absent THEN Ok(RegionDefault.extent)
              ELSE ExtentParse(elem.extent[1]),
              IF elem.displayAlign = Absent THEN Ok(RegionDefault.display_align)
              ELSE EnumParse(DisplayAlign, elem.displayAlign[1]),
              IF elem.overflow = Absent THEN Ok(RegionDefault.overflow)
              ELSE EnumParse(Overflow, elem.overflow[1]),
              IF elem.padding = Absent THEN Ok(RegionDefault.padding)
              ELSE PaddingParse(elem.padding[1]),
              IF elem.showBackground = Absent THEN Ok(RegionDefault.show_background)
              ELSE EnumParse(ShowBackground, elem.showBackground[1]),
              IF elem.writingMode = Absent THEN Ok(RegionDefault.writing_mode)
              ELSE EnumParse(WritingMode, elem.writingMode[1])>>)} })

\* lines 211-241: one region element of the layout section
_parse_regions(ctx, idattr, elem) ==
    Once({ IF ~id.ok THEN id ELSE
    Once({ IF ~added.ok THEN added ELSE
    Once({ IF ~region.ok THEN region ELSE
           IF elem.origin = Absent THEN Fail("Missing origin attribute") ELSE
           IF elem.extent = Absent THEN Fail("Missing extent attribute") ELSE
           Ok([ids |-> added.v, offered |-> <<id.v>>,
               regions |-> (id.v :> <<Len(ctx.document.regions), GetStripped(elem.style)>>)
                           @@ ctx.regions,
               document |-> [ctx.document EXCEPT !.regions = Append(@, region.v)]])
         : region \in {RegionAttrs(elem)} })
         : added \in {add_id(ctx.ids, id.v)} })
         : id \in {_parse_id(idattr, TRUE)} })

----------------------------------------------------------------------------
(* parse.py: the elements of the body                                      *)

\* lines 275-283: the body element, of which the root holds count
_parse_body(ctx, count, styleattr) ==
    IF count = 0 THEN Fail("Missing element body") ELSE
    IF count > 1 THEN Fail("Multiple body elements") ELSE
    Once({
    Once({ IF ~resolved_style.ok THEN resolved_style ELSE
           Ok([style_stack |-> stack,
               document |-> [ctx.document EXCEPT
                                !.body_background_color =
                                    resolved_style.v.background_color]])
         : resolved_style \in {_resolve_style(stack, ctx.styles,
                                              ctx.document.cell_resolution)} })
         : stack \in {IF GetStripped(styleattr) # <<>> THEN <<GetStripped(styleattr)>>
                      ELSE <<>>} })

\* the region reference taking every declared region for the first one
RegionRefFirst(ctx, regionattr) ==
    Once({ IF region_id = <<>>
           THEN Ok([region_id |-> region_id, region_index |-> -1, region_style |-> <<>>])
           ELSE IF region_id \in DOMAIN ctx.regions
           THEN Ok([region_id |-> region_id, region_index |-> 0,
                    region_style |-> ctx.regions[region_id][2]])
           ELSE Fail("Invalid region identifier")
         : region_id \in {GetStripped(regionattr)} })

\* lines 295-300 and 381-386: the region reference of a div or paragraph,
\* as [region_id, region_index, region_style]
RegionRef(ctx, regionattr) ==
    Once({ IF region_id = <<>>
           THEN Ok([region_id |-> region_id, region_index |-> -1, region_style |-> <<>>])
           ELSE IF region_id \in DOMAIN ctx.regions
           THEN Ok([region_id |-> region_id, region_index |-> ctx.regions[region_id][1],
                    region_style |-> ctx.regions[region_id][2]])
           ELSE Fail("Invalid region identifier")
         : region_id \in {GetStripped(regionattr)} })

\* `if id := _parse_id(elem, required=False): ctx.add_id(id)`
OptionalId(ctx, idattr) ==
    Once({ IF ~id.ok THEN id ELSE
           IF id.v = <<>> THEN Ok([id |-> id.v, ids |-> ctx.ids, offered |-> <<>>]) ELSE
    Once({ IF ~added.ok THEN added ELSE
           Ok([id |-> id.v, ids |-> added.v, offered |-> <<id.v>>])
         : added \in {add_id(ctx.ids, id.v)} })
         : id \in {_parse_id(idattr, FALSE)} })

\* an appendleft that appends at the right end
PushFrontAtBack(stack, ref) == IF ref # <<>> THEN Append(stack, ref) ELSE stack

\* a popleft that leaves the stack as it is
PopFrontNever(stack, ref) == stack

\* appendleft / append of a reference that is not empty
PushFront(stack, ref) == IF ref # <<>> THEN <<ref>> \o stack ELSE stack
PushBack(stack, ref) == IF ref # <<>> THEN Append(stack, ref) ELSE stack
PopFront(stack, ref) == IF ref # <<>> THEN Tail(stack) ELSE stack
PopBack(stack, ref) == IF ref # <<>> THEN SubSeq(stack, 1, Len(stack) - 1) ELSE stack

\* lines 291-309: a div element, up to the descent into its paragraphs
_parse_div(ctx, stack, idattr, regionattr, styleattr) ==
    Once({ IF ~id.ok THEN id ELSE
    Once({ IF ~region.ok THEN region ELSE
    Once({
    Once({ IF ~resolved.ok THEN resolved ELSE
           Ok([ids |-> id.v.ids, offered |-> id.v.offered, style_stack |-> stack1,
               region_id |-> region.v.region_id, region_index |-> region.v.region_index,
               region_style |-> region.v.region_style, style |-> style,
               div |-> [id |-> id.v.id, background_color |-> resolved.v.background_color]])
         : resolved \in {_resolve_style(stack1, ctx.styles,
                                        ctx.document.cell_resolution)} })
         : stack1 \in {PushBack(PushFront(stack, region.v.region_style), style)} })
         : region \in {RegionRef(ctx, regionattr)}, style \in {GetStripped(styleattr)} })
         : id \in {OptionalId(ctx, idattr)} })

\* lines 387-392 without the test of line 387: the paragraph's own region wins
ParagraphRegionOwnFirst(region_index, parent_region_index) ==
    IF region_index = -1
    THEN IF parent_region_index = -1 THEN Fail("Missing region attribute")
         ELSE Ok(parent_region_index)
    ELSE Ok(region_index)

\* lines 387-392: the region of a paragraph
ParagraphRegion(region_index, parent_region_index) ==
    IF region_index # -1 /\ parent_region_index # -1 THEN Fail("Multiple regions")
    ELSE IF region_index = -1
    THEN IF parent_region_index = -1 THEN Fail("Missing region attribute")
         ELSE Ok(parent_region_index)
    ELSE Ok(region_index)

\* lines 371-378: a required timecode attribute
Timecode(attr, missing) ==
    IF Given(attr) THEN _parse_timecode(Strip(attr[1])) ELSE Fail(missing)

\* lines 400-402 and 444-446: xml:space of a paragraph or span
SpaceAttr(attr) == IF GivenWord(attr) THEN EnumParse(Space, attr[1]) ELSE Ok("DEFAULT")

\* lines 369-419: a p element, up to the descent into its contents
_parse_para(ctx, stack, parent_region_index, elem) ==
    Once({ IF ~id.ok THEN id ELSE
    Once({ IF ~added.ok THEN added ELSE
    Once({ IF ~begin.ok THEN begin ELSE
    Once({ IF ~end.ok THEN end ELSE
    Once({ IF ~region.ok THEN region ELSE
    Once({ IF ~region_index.ok THEN region_index ELSE
    Once({ IF ~resolved.ok THEN resolved ELSE
    Once({ IF ~space.ok THEN space ELSE
           Ok([ids |-> added.v, offered |-> <<id.v>>, style_stack |-> stack1,
               region_id |-> region.v.region_id,
               region_style |-> region.v.region_style, style |-> style,
               para |-> [id |-> id.v, begin_secs |-> begin.v, end_secs |-> end.v,
                         region_index |-> region_index.v, space |-> space.v,
                         background_color |-> resolved.v.background_color,
                         direction |-> resolved.v.direction,
                         fill_line_gap |-> resolved.v.fill_line_gap,
                         line_height |-> resolved.v.line_height,
                         line_padding |-> resolved.v.line_padding,
                         multi_row_align |-> resolved.v.multi_row_align,
                         text_align |-> resolved.v.text_align,
                         unicode_bidi |-> resolved.v.unicode_bidi]])
         : space \in {SpaceAttr(elem.space)} })
         : resolved \in {_resolve_style(stack1, ctx.styles,
                                        ctx.document.cell_resolution)} })
         : region_index \in {ParagraphRegion(region.v.region_index, parent_region_index)},
           style \in {GetStripped(elem.style)},
           stack1 \in {PushBack(PushFront(stack, region.v.region_style),
                                GetStripped(elem.style))} })
         : region \in {RegionRef(ctx, elem.region)} })
         : end \in {Timecode(elem.end, "Missing end attribute")} })
         : begin \in {Timecode(elem.begin, "Missing begin attribute")} })
         : added \in {add_id(ctx.ids, id.v)} })
         : id \in {_parse_id(elem.id, TRUE)} })

\* lines 437-466: a span element; the stack is left as it was found
_parse_paragraph_content(ctx, stack, elem) ==
    Once({ IF ~id.ok THEN id ELSE
    Once({
    Once({ IF ~resolved.ok THEN resolved ELSE
    Once({ IF ~space.ok THEN space ELSE
           Ok([ids |-> id.v.ids, offered |-> id.v.offered, resolved_from |-> stack1,
               style |-> style, style_stack |-> PopBack(stack1, style),
               span |-> [id |-> id.v.id, space |-> space.v,
                         background_color |-> resolved.v.background_color,
                         color |-> resolved.v.color,
                         direction |-> resolved.v.direction,
                         font_family |-> resolved.v.font_family,
                         font_size |-> resolved.v.font_size,
                         font_style |-> resolved.v.font_style,
                         font_weight |-> resolved.v.font_weight,
                         text_decoration |-> resolved.v.text_decoration,
                         text_outline |-> resolved.v.text_outline,
                         unicode_bidi |-> resolved.v.unicode_bidi,
                         wrap_option |-> resolved.v.wrap_option]])
         : space \in {SpaceAttr(elem.space)} })
         : resolved \in {_resolve_style(stack1, ctx.styles,
                                        ctx.document.cell_resolution)} })
         : style \in {GetStripped(elem.style)},
           stack1 \in {PushBack(stack, GetStripped(elem.style))} })
         : id \in {OptionalId(ctx, elem.id)} })

----------------------------------------------------------------------------
(* parse.py: the root element                                              *)

\* model.Document(); body.divs and divs[-1].paragraphs are kept as their
\* lengths, the element appended last is in the variable last.
DocumentDefault ==
    [active_area |-> ActiveAreaDefault, cell_resolution |-> CellResolutionDefault,
     language |-> <<>>, space |-> "DEFAULT", regions |-> <<>>,
     body_background_color |-> transparent, divs |-> 0, paragraphs |-> 0]

\* lines 93-110: the root element
parse(root) ==
    IF root.tag # "tt" THEN Fail("Invalid root element") ELSE
    IF root.timeBase = Absent THEN Fail("Missing timeBase attribute") ELSE
    IF root.timeBase[1] # "media" THEN Fail("Invalid timeBase attribute") ELSE
    Once({ IF ~active_area.ok THEN active_area ELSE
    Once({ IF ~cell_resolution.ok THEN cell_resolution ELSE
           IF root.lang = Absent THEN Fail("Missing attribute lang") ELSE
    Once({ IF ~space.ok THEN space ELSE
           Ok([DocumentDefault EXCEPT !.active_area = active_area.v,
                                      !.cell_resolution = cell_resolution.v,
                                      !.language = Strip(root.lang[1]),
                                      !.space = space.v])
         : space \in {IF GivenWord(root.space) THEN EnumParse(Space, root.space[1])
                      ELSE Ok(DocumentDefault.space)} })
         : cell_resolution \in {IF Given(root.cellResolution)
                                THEN CellResolutionParse(root.cellResolution[1])
                                ELSE Ok(DocumentDefault.cell_resolution)} })
         : active_area \in {IF Given(root.activeArea)
                            THEN ActiveAreaParse(root.activeArea[1])
                            ELSE Ok(DocumentDefault.active_area)} })

----------------------------------------------------------------------------
(* The documents of the model                                              *)

MaxStyles == 2      \* style elements of a styling section
MaxRegions == 2     \* region elements of a layout section
MaxDivs == 2        \* div elements of the body
MaxParas == 2       \* p elements of a div

Red == <<"#", "f", "f", "0", "0", "0", "0", "f", "f">>
Blue == <<"#", "0", "0", "0", "0", "f", "f">>
Pct(tens, units) == <<DecDigits[tens + 1], DecDigits[units + 1], "%">>
Pair(x, y) == x \o <<" ">> \o y

\* the root elements: a good one, and its variants
Root == [tag |-> "tt", timeBase |-> Attr("media"), activeArea |-> Absent,
         cellResolution |-> Attr(<<"4", " ", "2">>), lang |-> Attr(<<"e", "n">>),
         space |-> Absent]

Roots ==
    {Root, [Root EXCEPT !.tag = "html"], [Root EXCEPT !.timeBase = Absent],
     [Root EXCEPT !.timeBase = Attr("smpte")],
     [Root EXCEPT !.activeArea = Attr(Pct(1, 0))],
     [Root EXCEPT !.cellResolution = Attr(<<"4", " ", "0">>)],
     [Root EXCEPT !.lang = Absent], [Root EXCEPT !.space = Attr("keep")]}

\* the style elements, as <<id attribute, styling attributes>>
StyleA == [backgroundColor |-> Red, fontSize |-> Pct(5, 0),
           fillLineGap |-> <<"t", "r", "u", "e">>, linePadding |-> <<"1", "c">>,
           fontFamily |-> <<"x">>]
StyleB == [color |-> Blue, fontSize |-> <<"0", "%">>,
           fillLineGap |-> <<"f", "a", "l", "s", "e">>, linePadding |-> <<"0", "c">>,
           fontFamily |-> <<" ">>]
StyleC == [fontSize |-> Pct(2, 0)]
StyleD == [lineHeight |-> Pct(5, 0), linePadding |-> <<"2", "c">>]
StyleE == [fontSize |-> <<"2", "0", "0", "%">>]

StyleElems ==
    {<<Attr(<<"a">>), StyleA>>, <<Attr(<<"b">>), StyleB>>,
     <<Absent, StyleA>>, <<Attr(<<" ">>), StyleA>>,
     <<Attr(<<"c">>), [color |-> <<"r", "e", "d">>]>>,
     <<Attr(<<"c">>), [fillLineGap |-> <<"m", "a", "y", "b", "e">>]>>}

\* the region elements, as <<id attribute, attributes>>
RegionR ==
    [origin |-> Attr(Pair(Pct(1, 0), Pct(1, 0))), extent |-> Attr(Pair(Pct(8, 0), Pct(8, 0))),
     style |-> Attr(<<"a">>), displayAlign |-> Absent, overflow |-> Absent,
     padding |-> Absent, showBackground |-> Absent, writingMode |-> Absent]
RegionT == [RegionR EXCEPT !.style = Absent, !.writingMode = Attr("tb")]
\* a region no div or paragraph of the model refers to; its style is not declared
RegionU == [RegionT EXCEPT !.style = Attr(<<"z">>)]

RegionElems ==
    {<<Attr(<<"r">>), RegionR>>, <<Attr(<<"t">>), RegionT>>,
     <<Attr(<<"a">>), RegionT>>, <<Absent, RegionT>>,
     <<Attr(<<"u">>), [RegionT EXCEPT !.origin = Absent]>>,
     <<Attr(<<"u">>), [RegionT EXCEPT !.extent = Absent]>>,
     <<Attr(<<"u">>), [RegionT EXCEPT !.padding =
                          Attr(Pair(Pair(Pct(0, 1), Pct(0, 2)), Pair(Pct(0, 3), Pct(0, 4))))]>>,
     <<Attr(<<"u">>), RegionU>>}

StyleRefs == {Absent, Attr(<<"a">>), Attr(<<"b">>), Attr(<<"z">>)}
RegionRefs == {Absent, Attr(<<"r">>), Attr(<<"t">>), Attr(<<"z">>)}

\* the div elements
DivElems ==
    {[id |-> i, region |-> r, style |-> st] :
        i \in {Absent, Attr(<<"d">>)}, r \in RegionRefs, st \in StyleRefs}
    \cup {[id |-> i, region |-> Attr(<<"r">>), style |-> Absent] :
            i \in {Attr(<<>>), Attr(<<" ">>), Attr(<<"a">>)}}

\* the p elements
Para == [id |-> Attr(<<"p">>),
         begin |-> Attr(<<"0", "1", ":", "0", "2", ":", "0", "3", ".", "4", "5", "6">>),
         end |-> Attr(<<"9", ":", "0", "0", ":", "0", "0", ".", "0", "0", "0">>),
         region |-> Absent, style |-> Absent, space |-> Absent]

ParaElems ==
    {[Para EXCEPT !.id = i, !.region = r, !.style = st] :
        i \in {Attr(<<"p">>), Attr(<<"d">>)}, r \in RegionRefs, st \in StyleRefs}
    \cup {[Para EXCEPT !.id = Absent], [Para EXCEPT !.id = Attr(<<" ">>)],
          [Para EXCEPT !.begin = Absent], [Para EXCEPT !.end = Absent],
          [Para EXCEPT !.begin = Attr(<<"0", "0", ":", "6", "0", ":", "0", "0", ".", "0", "0", "0">>)],
          [Para EXCEPT !.space = Attr("keep")],
          [Para EXCEPT !.region = Attr(<<"r">>), !.space = Attr("keep")],
          [Para EXCEPT !.region = Attr(<<"r">>), !.space = Attr("preserve")]}

\* the span elements
SpanElems ==
    {[id |-> i, style |-> st, space |-> Absent] :
        i \in {Absent, Attr(<<"s">>)}, st \in StyleRefs}
    \cup {[id |-> i, style |-> Absent, space |-> Absent] :
            i \in {Attr(<<>>), Attr(<<" ">>), Attr(<<"p">>)}}
    \cup {[id |-> Absent, style |-> Absent, space |-> Attr("keep")]}

----------------------------------------------------------------------------
(* The walk                                                                *)

NoError == [kind |-> "none", msg |-> ""]

\* last is what the latest step appended to the document, if anything: the
\* element (elem), the element of the input it was made from (src), its own
\* style reference (style) and the stack it was resolved from (stack)
NoElem == [kind |-> "none"]

\* the locals of the running _parse_div (region_id, region_index,
\* region_style, style) and _parse_para (region_id, region_style, style);
\* and, for the record, the style of the body, the stack as it was when
\* the latest div, p and span were reached, and the tables as the head left
\* them
NoFrame == [div_region_id |-> <<>>, region_index |-> -1, div_region_style |-> <<>>,
            div_style |-> <<>>, para_region_id |-> <<>>, para_region_style |-> <<>>,
            para_style |-> <<>>, body_style |-> <<>>, before_div |-> <<>>,
            before_para |-> <<>>, before_span |-> <<>>,
            head_styles |-> <<>>, head_regions |-> <<>>]

Ctx == [ids |-> ids, styles |-> styles, regions |-> regions, document |-> document]

Init ==
    /\ pc = "parse"
    /\ err = NoError
    /\ document = DocumentDefault
    /\ ids = {}
    /\ styles = <<>>
    /\ regions = <<>>
    /\ counts = [head |-> 0, styling |-> 0, layout |-> 0, body |-> 0]
    /\ style_stack = <<>>
    /\ frame = NoFrame
    /\ last = NoElem
    /\ seen = 0
    /\ pure_in = <<>>
    /\ pure_out = <<>>

\* an exception leaves parse(): nothing is returned
Stop(r) ==
    /\ pc' = "error"
    /\ err' = [kind |-> r.v, msg |-> r.msg]
    /\ seen' = IF "offered" \in DOMAIN r THEN seen + 1 ELSE seen
    /\ last' = NoElem
    /\ UNCHANGED <<document, ids, styles, regions, counts, style_stack, frame,
                   pure_in, pure_out>>

\* a step of the walk that appends nothing and raises nothing
Goto(position) ==
    /\ pc' = position
    /\ last' = NoElem
    /\ UNCHANGED <<err, pure_in, pure_out>>

\* lines 92-111
ParseRoot ==
    /\ pc = "parse"
    /\ \E root \in Roots : \E r \in {parse(root)} :
        IF ~r.ok THEN Stop(r)
        ELSE /\ Goto("head")
             /\ document' = r.v
             /\ UNCHANGED <<ids, styles, regions, counts, style_stack, frame, seen>>

\* lines 128-136: the head elements of the root
ParseHead ==
    /\ pc = "head"
    /\ \E count \in 0..2 :
        IF count = 0 THEN Stop(Fail("Missing element head"))
        ELSE IF count > 1 THEN Stop(Fail("Multiple head elements"))
        ELSE /\ Goto("head children")
             /\ counts' = [counts EXCEPT !.head = count]
             /\ UNCHANGED <<document, ids, styles, regions, style_stack, frame, seen>>

\* lines 138-141: a styling child of the head
Styling ==
    /\ pc = "head children"
    /\ IF counts.styling # 0 THEN Stop(Fail("Multiple styling elements"))
       ELSE /\ Goto("styling")
            /\ counts' = [counts EXCEPT !.styling = @ + 1]
            /\ UNCHANGED <<document, ids, styles, regions, style_stack, frame, seen>>

\* lines 159-204: a style child of the styling section
Style ==
    /\ pc = "styling"
    /\ Cardinality(DOMAIN styles) < MaxStyles
    /\ \E elem \in StyleElems : \E r \in {_parse_styles(Ctx, elem[1], elem[2])} :
        IF ~r.ok THEN Stop(r)
        ELSE /\ Goto("styling")
             /\ ids' = r.v.ids
             /\ styles' = r.v.styles
             /\ seen' = seen + Len(r.v.offered)
             /\ UNCHANGED <<document, regions, counts, style_stack, frame>>

\* lines 143-144: the styling section is done
StylingEnd ==
    /\ pc = "styling"
    /\ IF DOMAIN styles = {} THEN Stop(Fail("Missing element style"))
       ELSE /\ Goto("head children")
            /\ UNCHANGED <<document, ids, styles, regions, counts, style_stack,
                           frame, seen>>

\* lines 145-148: a layout child of the head
Layout ==
    /\ pc = "head children"
    /\ IF counts.layout # 0 THEN Stop(Fail("Multiple layout elements"))
       ELSE /\ Goto("layout")
            /\ counts' = [counts EXCEPT !.layout = @ + 1]
            /\ UNCHANGED <<document, ids, styles, regions, style_stack, frame, seen>>

\* lines 208-241: a region child of the layout section
Region ==
    /\ pc = "layout"
    /\ Len(document.regions) < MaxRegions
    /\ \E elem \in RegionElems : \E r \in {_parse_regions(Ctx, elem[1], elem[2])} :
        IF ~r.ok THEN Stop(r)
        ELSE /\ Goto("layout")
             /\ ids' = r.v.ids
             /\ regions' = r.v.regions
             /\ document' = r.v.document
             /\ seen' = seen + Len(r.v.offered)
             /\ UNCHANGED <<styles, counts, style_stack, frame>>

\* lines 150-151: the layout section is done
LayoutEnd ==
    /\ pc = "layout"
    /\ IF document.regions = <<>> THEN Stop(Fail("Missing element region"))
       ELSE /\ Goto("head children")
            /\ UNCHANGED <<document, ids, styles, regions, counts, style_stack,
                           frame, seen>>

\* lines 152-155: the head is done
HeadEnd ==
    /\ pc = "head children"
    /\ IF counts.styling = 0 THEN Stop(Fail("Missing element styling"))
       ELSE IF counts.layout = 0 THEN Stop(Fail("Missing element layout"))
       ELSE /\ Goto("body")
            /\ frame' = [frame EXCEPT !.head_styles = styles, !.head_regions = regions]
            /\ UNCHANGED <<document, ids, styles, regions, counts, style_stack, seen>>

\* lines 272-283: the body elements of the root
ParseBody ==
    /\ pc = "body"
    /\ \E count \in 0..2, styleattr \in StyleRefs :
       \E r \in {_parse_body(Ctx, count, styleattr)} :
        IF ~r.ok THEN Stop(r)
        ELSE /\ pc' = "divs"
             /\ style_stack' = r.v.style_stack
             /\ document' = r.v.document
             /\ last' = [kind |-> "body", style |-> GetStripped(styleattr),
                         stack |-> r.v.style_stack,
                         elem |-> [background_color |->
                                      r.v.document.body_background_color]]
             /\ counts' = [counts EXCEPT !.body = count]
             /\ frame' = [frame EXCEPT !.body_style = GetStripped(styleattr),
                                       !.before_div = r.v.style_stack]
             /\ UNCHANGED <<err, ids, styles, regions, seen, pure_in, pure_out>>

\* lines 288-310: a div child of the body is entered
DivEnter ==
    /\ pc = "divs"
    /\ document.divs < MaxDivs
    /\ \E elem \in DivElems :
       \E r \in {_parse_div(Ctx, style_stack, elem.id, elem.region, elem.style)} :
        IF ~r.ok THEN Stop(r)
        ELSE /\ pc' = "paras"
             /\ ids' = r.v.ids
             /\ seen' = seen + Len(r.v.offered)
             /\ style_stack' = r.v.style_stack
             /\ frame' = [frame EXCEPT !.div_region_id = r.v.region_id,
                                       !.region_index = r.v.region_index,
                                       !.div_region_style = r.v.region_style,
                                       !.div_style = r.v.style,
                                       !.before_div = style_stack,
                                       !.before_para = r.v.style_stack]
             /\ document' = [document EXCEPT !.divs = @ + 1, !.paragraphs = 0]
             /\ last' = [kind |-> "div", style |-> r.v.style,
                         stack |-> r.v.style_stack, elem |-> r.v.div,
                         src |-> elem, shared |-> SharedKeys(r.v.style_stack, styles)]
             /\ UNCHANGED <<err, styles, regions, counts, pure_in, pure_out>>

\* lines 366-420: a p child of the div is entered
ParaEnter ==
    /\ pc = "paras"
    /\ document.paragraphs < MaxParas
    /\ \E elem \in ParaElems :
       \E r \in {_parse_para(Ctx, style_stack, frame.region_index, elem)} :
        IF ~r.ok THEN Stop(r)
        ELSE /\ pc' = "contents"
             /\ ids' = r.v.ids
             /\ seen' = seen + Len(r.v.offered)
             /\ style_stack' = r.v.style_stack
             /\ frame' = [frame EXCEPT !.para_region_id = r.v.region_id,
                                       !.para_region_style = r.v.region_style,
                                       !.para_style = r.v.style,
                                       !.before_para = style_stack,
                                       !.before_span = r.v.style_stack]
             /\ document' = [document EXCEPT !.paragraphs = @ + 1]
             /\ last' = [kind |-> "p", style |-> r.v.style,
                         stack |-> r.v.style_stack, elem |-> r.v.para,
                         src |-> elem, shared |-> SharedKeys(r.v.style_stack, styles)]
             /\ UNCHANGED <<err, styles, regions, counts, pure_in, pure_out>>

\* a span child of the p whose resolved font size is written back into the
\* styles it names
SpanWritingBack ==
    /\ pc = "contents"
    /\ \E elem \in SpanElems :
       \E r \in {_parse_paragraph_content(Ctx, style_stack, elem)} :
        IF ~r.ok THEN Stop(r)
        ELSE /\ ids' = r.v.ids
             /\ styles' = [id \in DOMAIN styles |->
                              IF "font_size" \in DOMAIN styles[id]
                                 /\ \E j \in 1..Len(Split(r.v.style, SP)) :
                                        Split(r.v.style, SP)[j] = id
                              THEN [styles[id] EXCEPT !.font_size = r.v.span.font_size]
                              ELSE styles[id]]
             /\ seen' = seen + Len(r.v.offered)
             /\ style_stack' = r.v.style_stack
             /\ last' = [kind |-> "span", style |-> r.v.style,
                         stack |-> r.v.resolved_from, elem |-> r.v.span,
                         src |-> elem,
                         shared |-> SharedKeys(r.v.resolved_from, styles)]
             /\ frame' = [frame EXCEPT !.before_span = style_stack]
             /\ UNCHANGED <<pc, err, document, regions, counts, pure_in, pure_out>>

\* lines 435-466: a span child of the p
Span ==
    /\ pc = "contents"
    /\ \E elem \in SpanElems :
       \E r \in {_parse_paragraph_content(Ctx, style_stack, elem)} :
        IF ~r.ok THEN Stop(r)
        ELSE /\ ids' = r.v.ids
             /\ seen' = seen + Len(r.v.offered)
             /\ style_stack' = r.v.style_stack
             /\ last' = [kind |-> "span", style |-> r.v.style,
                         stack |-> r.v.resolved_from, elem |-> r.v.span,
                         src |-> elem,
                         shared |-> SharedKeys(r.v.resolved_from, styles)]
             /\ frame' = [frame EXCEPT !.before_span = style_stack]
             /\ UNCHANGED <<pc, err, document, styles, regions, counts,
                            pure_in, pure_out>>

\* lines 432-434: a br child of the p
Br ==
    /\ pc = "contents"
    /\ last' = [kind |-> "br"]
    /\ UNCHANGED <<pc, err, document, ids, styles, regions, counts, style_stack,
                   frame, seen, pure_in, pure_out>>

\* lines 421-424: the p is left
ParaLeave ==
    /\ pc = "contents"
    /\ Goto("paras")
    /\ style_stack' = PopFront(PopBack(style_stack, frame.para_style),
                               frame.para_region_style)
    /\ frame' = [frame EXCEPT !.para_region_id = <<>>, !.para_region_style = <<>>,
                              !.para_style = <<>>, !.before_span = <<>>]
    /\ UNCHANGED <<document, ids, styles, regions, counts, seen>>

\* the div is left without the test of lines 425-426
DivLeaveUnchecked ==
    /\ pc = "paras"
    /\ Goto("divs")
    /\ style_stack' = PopFront(PopBack(style_stack, frame.div_style),
                               frame.div_region_style)
    /\ frame' = [NoFrame EXCEPT !.body_style = frame.body_style,
                                !.before_div = frame.before_div,
                                !.head_styles = frame.head_styles,
                                !.head_regions = frame.head_regions]
    /\ UNCHANGED <<document, ids, styles, regions, counts, seen>>

\* lines 425-426 and 311-314: the div is left
DivLeave ==
    /\ pc = "paras"
    /\ IF document.paragraphs = 0 THEN Stop(Fail("Missing element p"))
       ELSE /\ Goto("divs")
            /\ style_stack' = PopFront(PopBack(style_stack, frame.div_style),
                                       frame.div_region_style)
            /\ frame' = [NoFrame EXCEPT !.body_style = frame.body_style,
                                        !.before_div = frame.before_div,
                                        !.head_styles = frame.head_styles,
                                        !.head_regions = frame.head_regions]
            /\ UNCHANGED <<document, ids, styles, regions, counts, seen>>

\* lines 315-316 and 114: the body is done and parse() returns the document
BodyEnd ==
    /\ pc = "divs"
    /\ IF document.divs = 0 THEN Stop(Fail("Missing element div"))
       ELSE /\ Goto("done")
            /\ UNCHANGED <<document, ids, styles, regions, counts, style_stack,
                           frame, seen>>

Next ==
    \/ ParseRoot \/ ParseHead
    \/ Styling \/ Style \/ StylingEnd
    \/ Layout \/ Region \/ LayoutEnd \/ HeadEnd
    \/ ParseBody \/ DivEnter \/ ParaEnter \/ Span \/ Br
    \/ ParaLeave \/ DivLeave \/ BodyEnd

Spec == Init /\ [][Next]_vars

----------------------------------------------------------------------------
(* The cascade on its own: scopes are pushed on a stack and resolved        *)

MaxScopes == 3      \* entries of the style stack

\* a styling section with the styles a, b and c
RECURSIVE StyleTable(_, _)
StyleTable(elems, ctx) ==
    IF elems = <<>> THEN ctx.styles
    ELSE Once({ StyleTable(Tail(elems), [ctx EXCEPT !.ids = r.v.ids,
                                                    !.styles = r.v.styles])
              : r \in {_parse_styles(ctx, Head(elems)[1], Head(elems)[2])} })

CascadeStyles ==
    StyleTable(<< <<Attr(<<"a">>), StyleA>>, <<Attr(<<"b">>), StyleB>>,
                  <<Attr(<<"c">>), StyleC>> >>,
               [ids |-> {}, styles |-> <<>>, regions |-> <<>>,
                document |-> DocumentDefault])

\* the style references of a scope
ScopeRefs ==
    {<<"a">>, <<"b">>, <<"c">>, <<"a", " ", "c">>, <<"c", " ", "a">>,
     <<"a", " ", "b">>, <<"z">>}

\* a styling section with a line height (d) and font sizes of 50% (a), 0% (b)
\* and 200% (e), and the references to it: at most one font size a scope
LineHeightStyles ==
    StyleTable(<< <<Attr(<<"a">>), StyleA>>, <<Attr(<<"b">>), StyleB>>,
                  <<Attr(<<"d">>), StyleD>>, <<Attr(<<"e">>), StyleE>> >>,
               [ids |-> {}, styles |-> <<>>, regions |-> <<>>,
                document |-> DocumentDefault])

LineHeightRefs ==
    {<<"a">>, <<"b">>, <<"d">>, <<"e">>, <<"d", " ", "a">>, <<"a", " ", "d">>}

CascadeInit ==
    /\ pc = "cascade"
    /\ err = NoError
    /\ \E root \in {Root, [Root EXCEPT !.cellResolution = Absent]} :
          document = parse(root).v
    /\ ids = {}
    /\ styles = CascadeStyles
    /\ regions = <<>>
    /\ counts = [head |-> 1, styling |-> 1, layout |-> 1, body |-> 1]
    /\ style_stack = <<>>
    /\ frame = NoFrame
    /\ last = NoElem
    /\ seen = 0
    /\ pure_in = <<>>
    /\ pure_out = _resolve_style(<<>>, CascadeStyles, document.cell_resolution)

\* a scope is entered: its reference is appended and the stack resolved;
\* pure_in keeps what the enclosing scope resolved to.  The references are
\* those to the styling section the walk started from.
PushScope ==
    /\ pc = "cascade"
    /\ pure_out.ok
    /\ Len(style_stack) < MaxScopes
    /\ \E ref \in (IF <<"d">> \in DOMAIN styles THEN LineHeightRefs ELSE ScopeRefs) :
        /\ style_stack' = PushBack(style_stack, ref)
        /\ pure_in' = pure_out
        /\ pure_out' = _resolve_style(style_stack', styles, document.cell_resolution)
    /\ UNCHANGED <<pc, err, document, ids, styles, regions, counts, frame, last, seen>>

CascadeNext == PushScope

SpecCascade == CascadeInit /\ [][CascadeNext]_vars

\* the same walk over the styling section with the line height
LineHeightInit ==
    /\ pc = "cascade"
    /\ err = NoError
    /\ \E root \in {Root, [Root EXCEPT !.cellResolution = Absent]} :
          document = parse(root).v
    /\ ids = {}
    /\ styles = LineHeightStyles
    /\ regions = <<>>
    /\ counts = [head |-> 1, styling |-> 1, layout |-> 1, body |-> 1]
    /\ style_stack = <<>>
    /\ frame = NoFrame
    /\ last = NoElem
    /\ seen = 0
    /\ pure_in = <<>>
    /\ pure_out = _resolve_style(<<>>, LineHeightStyles, document.cell_resolution)

SpecLineHeight == LineHeightInit /\ [][CascadeNext]_vars

----------------------------------------------------------------------------
(* Padding.parse on its own                                                *)

MaxValues == 5      \* values of a padding attribute

PaddingTokens ==
    {<<"1", "%">>, <<"2", "%">>, <<"3", "%">>, <<"4", "%">>, <<"x">>}

\* " ".join(values)
RECURSIVE JoinValues(_)
JoinValues(values) ==
    IF values = <<>> THEN <<>>
    ELSE IF Len(values) = 1 THEN values[1]
    ELSE values[1] \o <<" ">> \o JoinValues(Tail(values))

PaddingInit ==
    /\ pc = "padding"
    /\ err = NoError
    /\ document = DocumentDefault
    /\ ids = {}
    /\ styles = <<>>
    /\ regions = <<>>
    /\ counts = [head |-> 0, styling |-> 0, layout |-> 0, body |-> 0]
    /\ style_stack = <<>>
    /\ frame = NoFrame
    /\ last = NoElem
    /\ seen = 0
    /\ pure_in \in UNION {[1..n -> PaddingTokens] : n \in 0..MaxValues}
    /\ pure_out = <<>>

\* Padding.parse is applied to the attribute value
PaddingApply ==
    /\ pc = "padding"
    /\ pc' = "padded"
    /\ pure_out' = PaddingParse(JoinValues(pure_in))
    /\ UNCHANGED <<err, document, ids, styles, regions, counts, style_stack, frame,
                   last, seen, pure_in>>

PaddingNext == PaddingApply

SpecPadding == PaddingInit /\ [][PaddingNext]_vars

----------------------------------------------------------------------------
(* _parse_timecode on its own                                              *)

\* the pieces the timecode strings are put together from
TimecodeHours == {<<>>, <<"0">>, <<"0", "1">>, <<"0", "0", "1">>, <<"x">>}
TimecodeMinutes == {<<"0", "2">>, <<"5", "9">>, <<"6", "0">>, <<"5">>}
TimecodeSeconds == {<<"0", "3">>, <<"5", "9">>, <<"6", "0">>, <<"0", "0", "5">>}
TimecodeMillis == {<<"0", "0", "0">>, <<"4", "5", "6">>, <<"4", "5">>, <<"4", "5", "6", "7">>}
TimecodeTails == {<<>>, <<"0">>, <<" ">>}

TimecodeInit ==
    /\ pc = "timecode"
    /\ err = NoError
    /\ document = DocumentDefault
    /\ ids = {}
    /\ styles = <<>>
    /\ regions = <<>>
    /\ counts = [head |-> 0, styling |-> 0, layout |-> 0, body |-> 0]
    /\ style_stack = <<>>
    /\ frame = NoFrame
    /\ last = NoElem
    /\ seen = 0
    /\ \E h \in TimecodeHours, m \in TimecodeMinutes, s \in TimecodeSeconds,
          ms \in TimecodeMillis, tail \in TimecodeTails,
          c1 \in {<<":">>, <<>>}, c2 \in {<<":">>, <<".">>}, c3 \in {<<".">>, <<":">>} :
          pure_in = h \o c1 \o m \o c2 \o s \o c3 \o ms \o tail
    /\ pure_out = <<>>

\* _parse_timecode is applied to the attribute value
TimecodeApply ==
    /\ pc = "timecode"
    /\ pc' = "timed"
    /\ pure_out' = _parse_timecode(pure_in)
    /\ UNCHANGED <<err, document, ids, styles, regions, counts, style_stack, frame,
                   last, seen, pure_in>>

TimecodeNext == TimecodeApply

SpecTimecode == TimecodeInit /\ [][TimecodeNext]_vars

----------------------------------------------------------------------------
(* The properties                                                          *)

\* the styles named by a style reference
StyleNames(ref) == Split(ref, SP)

\* one of the styles the reference names declares the key
OwnDeclares(ref, key) ==
    \E i \in 1..Len(StyleNames(ref)) :
        /\ StyleNames(ref)[i] \in DOMAIN styles
        /\ key \in DOMAIN styles[StyleNames(ref)[i]]

\* C1 (non-inheriting reset): a div, paragraph or span none of whose own
\* styles declares a background color has the transparent background color,
\* whatever the body, the enclosing elements or the region style declare.
C1_NonInheritingReset ==
    (last.kind \in {"div", "p", "span"} /\ ~OwnDeclares(last.style, "background_color"))
        => last.elem.background_color = transparent

\* the accumulator _resolve_style starts from (lines 246-250)
InitialStyle == compute(ResolvedStyle, COMPUTE_ALL_MASK, None, document.cell_resolution)

\* C2 (merge overwrite): when a style of the table is merged into an
\* accumulator (the initial one, or the initial one with a style of the
\* table merged), each key the style declares has the style's value after.
C2_MergeOverwrite ==
    \A earlier \in DOMAIN styles, id \in DOMAIN styles :
        \A acc \in {InitialStyle, merge_properties(InitialStyle, styles[earlier]).self} :
            \A key \in DOMAIN styles[id] :
                merge_properties(acc, styles[id]).self[key] = styles[id][key]

\* the reference names exactly two styles of the table, both declaring a
\* font size that is not zero
TwoSized(ref) ==
    /\ Len(StyleNames(ref)) = 2
    /\ \A i \in 1..2 :
        /\ StyleNames(ref)[i] \in DOMAIN styles
        /\ "font_size" \in DOMAIN styles[StyleNames(ref)[i]]
        /\ styles[StyleNames(ref)[i]].font_size # Zero

\* C3 (per-scope basis): a scope naming two styles s1 s2 that both declare
\* a font size resolves to the fraction of s2 times the font size the
\* previous scope resolved to.
C3_PerScopeBasis ==
    (pc = "cascade" /\ style_stack # <<>> /\ pure_out.ok
        /\ TwoSized(style_stack[Len(style_stack)]))
        => pure_out.v.font_size =
               RMul(styles[StyleNames(style_stack[Len(style_stack)])[2]].font_size,
                    pure_in.v.font_size)

\* the reference names exactly one style of the table, which declares a
\* font size
OneSized(ref) ==
    /\ Len(StyleNames(ref)) = 1
    /\ StyleNames(ref)[1] \in DOMAIN styles
    /\ "font_size" \in DOMAIN styles[StyleNames(ref)[1]]

\* the product of the font size fractions of the scopes of a stack
RECURSIVE FractionProduct(_)
FractionProduct(stack) ==
    IF stack = <<>> THEN One
    ELSE RMul(styles[StyleNames(Head(stack))[1]].font_size, FractionProduct(Tail(stack)))

\* C4 (basis chaining): the font size of a span resolved from a stack each
\* scope of which names one style declaring a font size is the product of
\* the fractions times 1/rows.
C4_BasisChaining ==
    (last.kind = "span" /\ \A i \in 1..Len(last.stack) : OneSized(last.stack[i]))
        => last.elem.font_size =
               RDiv(FractionProduct(last.stack), document.cell_resolution.rows)

\* the region reference of an element is there
HasRegion(attr) == GetStripped(attr) # <<>>

\* C5 (region resolution): an accepted paragraph has exactly one of its own
\* and its div's region reference, and its region is the one named there; a
\* paragraph with both or with neither is rejected; and a paragraph with
\* exactly one is never rejected for its region resolution.
C5_RegionResolution ==
    /\ last.kind = "p" =>
        /\ (frame.para_region_id # <<>>) # (frame.div_region_id # <<>>)
        /\ HasRegion(last.src.region) = (frame.para_region_id # <<>>)
        /\ last.elem.region_index =
              regions[IF frame.para_region_id # <<>> THEN frame.para_region_id
                      ELSE frame.div_region_id][1]
    /\ pc = "paras" =>
        \A elem \in ParaElems :
            \A r \in {_parse_para(Ctx, style_stack, frame.region_index, elem)} :
                /\ HasRegion(elem.region) = (frame.div_region_id # <<>>) => ~r.ok
                /\ (~r.ok /\ r.msg \in {"Multiple regions", "Missing region attribute"})
                      => HasRegion(elem.region) = (frame.div_region_id # <<>>)

\* a paragraph without a region of its own is accepted in a div with one,
\* and gets the second region of the document
C5_Witness ==
    /\ last.kind = "p"
    /\ ~HasRegion(last.src.region)
    /\ frame.div_region_id = <<"t">>
    /\ last.elem.region_index = 1

UniquenessError == [kind |-> ParseError, msg |-> "Non unique identifier"]

\* C6 (identifier uniqueness): seen counts the identifiers the elements
\* visited so far have offered to the registry.  While the walk goes on each
\* of them is in the registry once; the walk stops with the uniqueness
\* ParseError exactly when an identifier is offered a second time.
C6_IdentifierUniqueness ==
    /\ pc # "error" => seen = Cardinality(ids)
    /\ pc = "error" =>
        /\ seen \in {Cardinality(ids), Cardinality(ids) + 1}
        /\ (seen = Cardinality(ids) + 1) = (err = UniquenessError)

\* a paragraph reuses the identifier of its div
C6_Witness ==
    /\ pc = "error"
    /\ err = UniquenessError
    /\ document.divs = 1
    /\ document.paragraphs = 0
    /\ <<"d">> \in ids
    /\ frame.div_region_id # <<>>

\* C7 (single error kind): every rejection of a document is a ParseError.
C7_SingleErrorKind == pc = "error" => err.kind = ParseError

\* C8 (identifier non-emptiness): an accepted div, paragraph or span with
\* an id attribute has an identifier that is not empty after trimming.
C8_IdentifierNonEmpty ==
    (last.kind \in {"div", "p", "span"} /\ last.src.id # Absent)
        => Strip(last.src.id[1]) # <<>>

\* the i-th value of the padding attribute as a percentage
PaddingValue(i) == UnitParse(PERCENT, pure_in[i], None)

\* C9 (padding shorthand): Padding.parse accepts exactly the lists of one
\* to four percentages and expands them to before, end, after, start.
C9_PaddingShorthand ==
    pc = "padded" =>
        IF Len(pure_in) \in 1..4 /\ \A i \in 1..Len(pure_in) : PaddingValue(i).ok
        THEN /\ pure_out.ok
             /\ pure_out.v.before = PaddingValue(1).v
             /\ pure_out.v.end = PaddingValue(IF Len(pure_in) >= 2 THEN 2 ELSE 1).v
             /\ pure_out.v.after = PaddingValue(IF Len(pure_in) >= 3 THEN 3 ELSE 1).v
             /\ pure_out.v.start = PaddingValue(IF Len(pure_in) = 4 THEN 4
                                                ELSE IF Len(pure_in) >= 2 THEN 2
                                                ELSE 1).v
        ELSE ~pure_out.ok

CardinalityErrors ==
    {"Missing element head", "Multiple head elements", "Multiple styling elements",
     "Missing element style", "Multiple layout elements", "Missing element region",
     "Missing element styling", "Missing element layout", "Missing element body",
     "Multiple body elements", "Missing element p", "Missing element div"}

\* C10 (structural cardinalities): a document is accepted only with one
\* head, one styling section with a style, one layout section with a
\* region, one body with a div, and a paragraph in every div; a div is left
\* only with a paragraph; and a rejection for a count is a ParseError.
C10_StructuralCardinalities ==
    /\ pc = "done" =>
        /\ counts = [head |-> 1, styling |-> 1, layout |-> 1, body |-> 1]
        /\ DOMAIN styles # {}
        /\ document.regions # <<>>
        /\ document.divs >= 1
    /\ (pc \in {"divs", "done"} /\ document.divs >= 1) => document.paragraphs >= 1
    /\ (pc = "error" /\ err.msg \in CardinalityErrors) => err.kind = ParseError

\* a document with two divs is accepted
C10_Witness ==
    /\ pc = "done"
    /\ document.divs = 2
    /\ document.paragraphs >= 1
    /\ Len(document.regions) = 2

\* every style a reference names is declared
Declared(ref) ==
    \A i \in 1..Len(StyleNames(ref)) :
        StyleNames(ref)[i] = <<>> \/ StyleNames(ref)[i] \in DOMAIN styles

\* C11 (dangling references): the style references of an accepted body, div,
\* paragraph or span and its region reference name declared styles and a
\* declared region, and in an accepted document the style reference of
\* every region declaration names declared styles.
C11_DanglingReferences ==
    /\ last.kind \in {"body", "div", "p", "span"} =>
          \A i \in 1..Len(last.stack) : Declared(last.stack[i])
    /\ last.kind \in {"div", "p"} =>
          /\ HasRegion(last.src.region) => GetStripped(last.src.region) \in DOMAIN regions
          /\ Declared(GetStripped(last.src.style))
    /\ pc = "done" => \A id \in DOMAIN regions : Declared(regions[id][2])

\* the styles named by the entries of a stack, outermost first
RECURSIVE ScopeNames(_)
ScopeNames(stack) ==
    IF stack = <<>> THEN <<>> ELSE StyleNames(Head(stack)) \o ScopeNames(Tail(stack))

\* the value of a key in the last style of names that declares it
RECURSIVE LastDeclared(_, _, _)
LastDeclared(names, key, default) ==
    IF names = <<>> THEN default
    ELSE IF names[Len(names)] \in DOMAIN styles
            /\ key \in DOMAIN styles[names[Len(names)]]
    THEN styles[names[Len(names)]][key]
    ELSE LastDeclared(SubSeq(names, 1, Len(names) - 1), key, default)

\* C12 (inheriting properties propagate): the color of a span is the color
\* declared by the innermost style of its stack that declares one (white if
\* none does), however many scopes without a color lie in between.
C12_ColorPropagates ==
    last.kind = "span" =>
        last.elem.color = LastDeclared(ScopeNames(last.stack), "color", white)

\* a span without a style gets the color of the body style through a div
\* whose style declares no color
C12_Witness ==
    /\ last.kind = "span"
    /\ last.style = <<>>
    /\ last.stack = << <<"b">>, <<"a">> >>
    /\ last.elem.color = <<0, 0, 255, 0>>

----------------------------------------------------------------------------
\* C14 (line-height re-derivation): whenever a style of the stack declares a
\* line-height fraction, the resolved line height is the fraction declared
\* last times the resolved font size, also when a later scope or style
\* redeclares the font size without redeclaring the line height.
C14_LineHeightRederivation ==
    (pc = "cascade" /\ pure_out.ok
        /\ LastDeclared(ScopeNames(style_stack), "line_height", None) # None)
        => pure_out.v.line_height =
               RMul(LastDeclared(ScopeNames(style_stack), "line_height", None),
                    pure_out.v.font_size)

\* the line padding of the last style of names that declares a positive one
RECURSIVE LastPositivePadding(_)
LastPositivePadding(names) ==
    IF names = <<>> THEN Zero
    ELSE IF names[Len(names)] \in DOMAIN styles
            /\ "line_padding" \in DOMAIN styles[names[Len(names)]]
            /\ styles[names[Len(names)]].line_padding # Zero
    THEN styles[names[Len(names)]].line_padding
    ELSE LastPositivePadding(SubSeq(names, 1, Len(names) - 1))

\* C18 (line padding basis): the resolved line padding of a stack is the
\* positive cell value declared last (none: zero) divided by the column
\* count of the cell resolution, whatever later scopes and styles declare
\* for the font size and the line height.
C18_LinePaddingBasis ==
    (pc = "cascade" /\ pure_out.ok)
        => pure_out.v.line_padding =
               RDiv(LastPositivePadding(ScopeNames(style_stack)),
                    document.cell_resolution.columns)

\* two cells of four columns, then a scope with the zero padding and the
\* zero font size, then a scope doubling the font size
C18_Witness ==
    /\ pc = "cascade"
    /\ style_stack = << <<"d">>, <<"b">>, <<"e">> >>
    /\ document.cell_resolution.columns = 4
    /\ pure_out.ok
    /\ pure_out.v.line_padding = Rat(2, 4)

----------------------------------------------------------------------------
\* C15 (scope stack balance): while the walk goes on, the stack after a div,
\* a p or a span has been processed is the stack as it was before the
\* element was entered, and once the body is done it holds the style
\* reference of the body and nothing else.
C15_StackBalance ==
    /\ pc = "divs" => style_stack = frame.before_div
    /\ pc = "paras" => style_stack = frame.before_para
    /\ pc = "contents" => style_stack = frame.before_span
    /\ pc \in {"divs", "done"} =>
          style_stack = (IF frame.body_style = <<>> THEN <<>> ELSE <<frame.body_style>>)

\* a p has been entered and left in a div with a style and no region under
\* a body with a style: the stack is the one the p found
C15_Witness ==
    /\ pc = "paras"
    /\ document.paragraphs = 1
    /\ frame.body_style # <<>>
    /\ frame.div_style # <<>>
    /\ frame.div_region_style = <<>>
    /\ style_stack = <<frame.body_style, frame.div_style>>
    /\ frame.before_para = style_stack

----------------------------------------------------------------------------
\* the style of the region the running p, or else the running div, names
CurrentRegionStyle ==
    IF frame.para_region_id # <<>> THEN regions[frame.para_region_id][2]
    ELSE IF frame.div_region_id # <<>> THEN regions[frame.div_region_id][2]
    ELSE <<>>

\* the references of the enclosing elements that are not empty, outermost
\* first, the region style in front
EnclosingScopes ==
    NonEmpty(<<CurrentRegionStyle, frame.body_style, frame.div_style, frame.para_style>>)

\* C16 (scope stack shape): the stack a div or p is resolved from is the
\* style of its region, the style of the body, of the div and of the p, each
\* only if it is not empty; a span adds its own at the end; and between the
\* elements of the body the stack is that of the enclosing elements.  So
\* there is at most one region style, it is in front, and it is the style of
\* the region the p (or div) resolves to.
C16_StackShape ==
    /\ last.kind \in {"div", "p"} => last.stack = EnclosingScopes
    /\ last.kind = "span" => last.stack = EnclosingScopes \o NonEmpty(<<last.style>>)
    /\ last.kind = "p" =>
          (last.elem.region_index =
              (IF frame.para_region_id # <<>> THEN regions[frame.para_region_id][1]
               ELSE regions[frame.div_region_id][1]))
    /\ pc \in {"divs", "paras", "contents"} => style_stack = EnclosingScopes

\* a span with the style a in a p with the style b and the region r (whose
\* style is a) in a div with the style a under a body with the style b
C16_Witness ==
    /\ last.kind = "span"
    /\ frame.para_region_id = <<"r">>
    /\ last.stack = << <<"a">>, <<"b">>, <<"a">>, <<"b">>, <<"a">> >>

----------------------------------------------------------------------------
\* the region identifier a p resolves to: its own, or else that of its div
ParagraphRegionId ==
    IF HasRegion(last.src.region) THEN GetStripped(last.src.region)
    ELSE frame.div_region_id

\* C19 (region index validity): the region index of every p is that of a
\* region of the document, namely of the region its own region reference
\* names or else the reference of its div: the index the Region Table holds
\* for the identifier, at which the document has the region declared under
\* it (of the regions declared here, r alone is written left to right); and
\* the Region Table maps the identifiers one to one onto the positions of
\* the regions of the document.
C19_RegionIndexValidity ==
    /\ last.kind = "p" =>
          /\ last.elem.region_index >= 0
          /\ last.elem.region_index < Len(document.regions)
          /\ ParagraphRegionId \in DOMAIN regions
          /\ last.elem.region_index = regions[ParagraphRegionId][1]
          /\ document.regions[last.elem.region_index + 1].writing_mode =
                 (IF ParagraphRegionId = <<"r">> THEN "LRTB" ELSE "TBRL")
    /\ \A id1 \in DOMAIN regions :
          /\ regions[id1][1] \in 0..(Len(document.regions) - 1)
          /\ \A id2 \in DOMAIN regions : id1 # id2 => regions[id1][1] # regions[id2][1]
    /\ Cardinality(DOMAIN regions) = Len(document.regions)

\* a p without a region reference in a div naming r, declared after t
C19_Witness ==
    /\ last.kind = "p"
    /\ ~HasRegion(last.src.region)
    /\ frame.div_region_id = <<"r">>
    /\ last.elem.region_index = 1
    /\ document.regions[2].writing_mode = "LRTB"

----------------------------------------------------------------------------
\* C17 (tables are read-only during the body pass): from the end of the
\* head on the Style Table and the Region Table are what the head left; the
\* element a div, p or span step appended is what the stack it was resolved
\* from resolves to when it is resolved again against the tables as the
\* step left them; and no value of the resolved record is an object of the
\* table.
C17_TablesReadOnly ==
    /\ pc \in {"body", "divs", "paras", "contents", "done"} =>
          /\ styles = frame.head_styles
          /\ regions = frame.head_regions
    /\ last.kind \in {"div", "p", "span"} =>
          /\ last.shared = {}
          /\ \E again \in {_resolve_style(last.stack, styles, document.cell_resolution)} :
                /\ again.ok
                /\ \A key \in DOMAIN last.elem \cap DOMAIN again.v :
                      last.elem[key] = again.v[key]

\* the second p of a div holds a span with the style a: its font family is
\* the declared list and its font size is not the declared fraction, which
\* the table still holds
C17_Witness ==
    /\ last.kind = "span"
    /\ last.style = <<"a">>
    /\ document.paragraphs = 2
    /\ last.elem.font_family = << <<"x">> >>
    /\ styles[<<"a">>].font_family = << <<"x">> >>
    /\ styles[<<"a">>].font_size = Rat(1, 2)
    /\ last.elem.font_size # Rat(1, 2)

----------------------------------------------------------------------------
\* the two-digit number at position i of s, or -1
TwoDigits(s, i) ==
    IF IsDec(s[i]) /\ IsDec(s[i + 1]) THEN 10 * DecVal(s[i]) + DecVal(s[i + 1]) ELSE -1

\* s is H+:MM:SS.mmm with MM and SS at most 59, read from its end
WellFormedTimecode(s) ==
    /\ Len(s) >= 11
    /\ AllDec(SubSeq(s, 1, Len(s) - 10))
    /\ s[Len(s) - 9] = ":" /\ TwoDigits(s, Len(s) - 8) \in 0..59
    /\ s[Len(s) - 6] = ":" /\ TwoDigits(s, Len(s) - 5) \in 0..59
    /\ s[Len(s) - 3] = "." /\ AllDec(SubSeq(s, Len(s) - 2, Len(s)))

\* 3600*H + 60*MM + SS + mmm/1000 of a well-formed timecode, in milliseconds
TimecodeMilliseconds(s) ==
    3600000 * DecNum(SubSeq(s, 1, Len(s) - 10)) + 60000 * TwoDigits(s, Len(s) - 8)
        + 1000 * TwoDigits(s, Len(s) - 5) + DecNum(SubSeq(s, Len(s) - 2, Len(s)))

\* C13 (timecode grammar): _parse_timecode returns the seconds of a string
\* of the form H+:MM:SS.mmm and rejects every other string with a
\* ParseError.
C13_TimecodeGrammar ==
    pc = "timed" =>
        IF WellFormedTimecode(pure_in)
        THEN pure_out = Ok(Rat(TimecodeMilliseconds(pure_in), 1000))
        ELSE ~pure_out.ok /\ pure_out.v = ParseError

\* 01:02:03.456 is 3723.456 seconds
C13_Witness ==
    /\ pc = "timed"
    /\ pure_in = <<"0", "1", ":", "0", "2", ":", "0", "3", ".", "4", "5", "6">>
    /\ pure_out = Ok(Rat(3723456, 1000))

====
